---- MODULE Spec2Model ----
(***************************************************************************)
(* Timeline segmentation and keep-range resolution of the FCP text-based   *)
(* editor (src/src/models.py, src/src/timeline.py), the command line that  *)
(* builds and loads a session (src/main.py), the editing session with its  *)
(* buffer spin box and re-analysis thread (src/src/editor.py) and the      *)
(* play loop of the preview player (src/src/video_player.py).              *)
(*                                                                         *)
(* Time is an integer number of ticks, one tick = 0.00001 s, so that       *)
(* round(x, 4) is a real rounding (to a multiple of 10 ticks):             *)
(*      0.0001 s = 10 ticks, 1 ms = 100 ticks, 10 ms = 1000 ticks.         *)
(* Arithmetic is exact decimal arithmetic; binary floating point noise is  *)
(* not modelled.  Segment indices are 0-based as in the source, sequences  *)
(* are 1-based: segments[idx] of the source is segments[idx + 1] here.     *)
(***************************************************************************)
EXTENDS Integers, Sequences, FiniteSets, TLC

VARIABLES text_segments, detected_silences, video_duration,
          segments, deleted, buffer, keep, pc,
          project_deleted,          \* Project.deleted, a list of indices
          selected,                 \* TextEditor.selected
          undo_stack, redo_stack,   \* TextEditor._undo_stack, ._redo_stack
          shown,                    \* segments in the transcript widget
          refresh,                  \* queued after(0, _full_refresh) calls
          workers,                  \* the re-analysis threads, in start order
          issued,                   \* history: indices deleted by an edit issued
                                    \* while a re-analysis was running
          spin_value, spin_entry,   \* the buffer _SpinEntry: _value, entry text
          timer,                    \* _setting_change_id is set
          disk,                     \* the session file Project.save wrote
          last_op,                  \* history: the last edit, undone or redone
          playing,                  \* OpenCVPlayer._playing
          loops,                    \* the threads started on _play_loop
          cap_pos                   \* the frame the capture reads next

\* the state of an editing session beyond the project's timeline
input_vars == <<text_segments, detected_silences>>
edit_vars == <<selected, undo_stack, redo_stack>>
thread_vars == <<shown, refresh, workers, issued>>
spin_vars == <<spin_value, spin_entry, timer>>
player_vars == <<playing, loops, cap_pos>>

session_vars == <<project_deleted, edit_vars, thread_vars, spin_vars,
                  disk, last_op, player_vars>>

vars == <<text_segments, detected_silences, video_duration,
          segments, deleted, buffer, keep, pc, session_vars>>

\* ---------------------------------------------------------------- bounds
MaxWords == 3
MaxDet == 2
MaxDeleted == 2

\* ------------------------------------------------------------- constants
WORD_GAP_COLLAPSE_S == 1000
DELETABLE_MIN == 100
OVERLAP_MIN == 100
KEEP_TOL == 100
BUFFER_FLOOR == 100
Quantum == 10

\* ------------------------------------------------------- generic helpers
Range(s) == {s[i] : i \in 1..Len(s)}

Max(a, b) == IF a >= b THEN a ELSE b
Min(a, b) == IF a <= b THEN a ELSE b

\* round(x, 4): nearest multiple of Quantum, ties to the even multiple
RoundNonNeg(x) ==
    LET q == x \div Quantum
        r == x % Quantum
    IN  IF 2 * r < Quantum THEN Quantum * q
        ELSE IF 2 * r > Quantum THEN Quantum * (q + 1)
        ELSE IF q % 2 = 0 THEN Quantum * q ELSE Quantum * (q + 1)

Round4(x) == IF x >= 0 THEN RoundNonNeg(x) ELSE 0 - RoundNonNeg(0 - x)

\* ------------------------------------------------------------ models.py
TextSegment(text, start, end) ==
    [kind |-> "text", text |-> text, start |-> start, end |-> end,
     is_detected |-> FALSE]

Silence(start, end, is_det) ==
    [kind |-> "silence", text |-> "", start |-> start, end |-> end,
     is_detected |-> is_det]

isTextSegment(seg) == seg.kind = "text"
isSilence(seg) == seg.kind = "silence"

duration(seg) == seg.end - seg.start

None == <<>>

\* Silence.deletable_range: the test of line 57
survives_buffer(inner_start, inner_end) == inner_end > inner_start + DELETABLE_MIN

\* variants of deletable_range with a slip: no test at all, the buffer taken
\* off one side only, the buffer not applied
deletable_range_unchecked(seg, buf) ==
    <<Round4(seg.start + buf), Round4(seg.end - buf)>>

deletable_range_one_sided(seg, buf) ==
    LET inner_start == seg.start + buf
        inner_end   == seg.end
    IN  IF survives_buffer(inner_start, inner_end)
        THEN <<Round4(inner_start), Round4(inner_end)>>
        ELSE None

deletable_range_no_buffer(seg, buf) ==
    IF survives_buffer(seg.start + buf, seg.end - buf)
    THEN <<Round4(seg.start), Round4(seg.end)>>
    ELSE None

deletable_range(seg, buf) ==
    LET inner_start == seg.start + buf
        inner_end   == seg.end - buf
    IN  IF survives_buffer(inner_start, inner_end)
        THEN <<Round4(inner_start), Round4(inner_end)>>
        ELSE None

\* SilenceSettings.__post_init__: the buffer a settings object holds
\* (variant: the buffer is rounded, not clamped)
SilenceSettings_unclamped(raw_buffer) == Round4(raw_buffer)

SilenceSettings(raw_buffer) == Max(BUFFER_FLOOR, Round4(raw_buffer))

\* ----------------------------------------------------------- timeline.py
\* sorted(xs, key=lambda w: w.start): stable
RECURSIVE InsertByStart(_, _)
InsertByStart(x, s) ==
    IF s = <<>> THEN <<x>>
    ELSE IF s[Len(s)].start <= x.start THEN Append(s, x)
    ELSE Append(InsertByStart(x, SubSeq(s, 1, Len(s) - 1)), s[Len(s)])

RECURSIVE SortByStart(_)
SortByStart(s) ==
    IF s = <<>> THEN <<>>
    ELSE InsertByStart(s[Len(s)], SortByStart(SubSeq(s, 1, Len(s) - 1)))

\* is_detected, the while loop: det_idx is a 0-based pointer into det_sil
\* variant: the pointer skips every silence that starts before the gap
RECURSIVE advance_det_idx_by_start(_, _, _)
advance_det_idx_by_start(det_sil, det_idx, gap_start) ==
    IF det_idx < Len(det_sil) /\ det_sil[det_idx + 1].start < gap_start
    THEN advance_det_idx_by_start(det_sil, det_idx + 1, gap_start)
    ELSE det_idx

RECURSIVE advance_det_idx(_, _, _)
advance_det_idx(det_sil, det_idx, gap_start) ==
    IF det_idx < Len(det_sil) /\ det_sil[det_idx + 1].end < gap_start
    THEN advance_det_idx(det_sil, det_idx + 1, gap_start)
    ELSE det_idx

overlap_enough(overlap) == overlap >= OVERLAP_MIN

\* is_detected, the for loop over det_sil[det_idx:]
RECURSIVE scan_det(_, _, _, _)
scan_det(det_sil, j, gap_start, gap_end) ==
    IF j >= Len(det_sil) THEN FALSE
    ELSE LET s == det_sil[j + 1]
         IN  IF s.start > gap_end THEN FALSE
             ELSE IF overlap_enough(Min(s.end, gap_end) - Max(s.start, gap_start))
                  THEN TRUE
                  ELSE scan_det(det_sil, j + 1, gap_start, gap_end)

\* is_detected: the answer and the pointer it leaves behind
is_detected(det_sil, det_idx, gap_start, gap_end) ==
    LET j == advance_det_idx(det_sil, det_idx, gap_start)
    IN  [found |-> scan_det(det_sil, j, gap_start, gap_end), det_idx |-> j]

\* segments[-2] = TextSegment(last.text, last.start, round(next_word.start, 4))
\* (segs has at least two elements; segs[-2] is segs[Len(segs) - 1] here)
snap_previous(segs, next_word) ==
    LET k    == Len(segs) - 1
        last == segs[k]
    IN  IF isTextSegment(last)
        THEN [segs EXCEPT ![k] = TextSegment(last.text, last.start,
                                             Round4(next_word.start))]
        ELSE segs

\* the loop "for i, word in enumerate(words)", i 1-based here
RECURSIVE word_loop(_, _, _, _, _)
word_loop(words, det_sil, i, segs, det_idx) ==
    IF i > Len(words) THEN [ok |-> TRUE, segments |-> segs, det_idx |-> det_idx]
    ELSE
      LET segs1 == Append(segs, words[i])
      IN  IF i < Len(words)
          THEN LET next_word == words[i + 1]
                   gap_start == Round4(words[i].end)
                   gap_end   == Round4(next_word.start)
                   gap_dur   == gap_end - gap_start
               IN  IF gap_dur > WORD_GAP_COLLAPSE_S
                   THEN LET d == is_detected(det_sil, det_idx, gap_start, gap_end)
                        IN  word_loop(words, det_sil, i + 1,
                                      Append(segs1, Silence(gap_start, gap_end, d.found)),
                                      d.det_idx)
                   ELSE IF gap_dur > 0
                   THEN IF Len(segs1) < 2
                        THEN \* segments[-2] raises IndexError
                             [ok |-> FALSE, segments |-> <<>>, det_idx |-> det_idx]
                        ELSE word_loop(words, det_sil, i + 1,
                                       snap_previous(segs1, next_word), det_idx)
                   ELSE word_loop(words, det_sil, i + 1, segs1, det_idx)
          ELSE word_loop(words, det_sil, i + 1, segs1, det_idx)

\* the leading silence, before the first word
leading_silence(words, det_sil) ==
    IF words[1].start > WORD_GAP_COLLAPSE_S
    THEN LET gap_end == Round4(words[1].start)
         IN  <<Silence(0, gap_end, is_detected(det_sil, 0, 0, gap_end).found)>>
    ELSE <<>>

\* the trailing silence, after the last word
\* (variant: the silence is shrunk by the buffer of the settings)
trailing_silence_shrunk(words, det_sil, det_idx, total) ==
    LET last_word_end == Round4(words[Len(words)].end)
    IN  IF total - last_word_end > WORD_GAP_COLLAPSE_S
        THEN LET gap_end == Round4(total)
             IN  <<Silence(last_word_end + buffer, gap_end - buffer,
                           is_detected(det_sil, det_idx, last_word_end, gap_end).found)>>
        ELSE <<>>

trailing_silence(words, det_sil, det_idx, total) ==
    LET last_word_end == Round4(words[Len(words)].end)
    IN  IF total - last_word_end > WORD_GAP_COLLAPSE_S
        THEN LET gap_end == Round4(total)
             IN  <<Silence(last_word_end, gap_end,
                           is_detected(det_sil, det_idx, last_word_end, gap_end).found)>>
        ELSE <<>>

\* build_timeline: ok = FALSE when the call raises
\* (variant: without a transcript the one silence is classified like a gap)
build_timeline_classifying(words_in, silences_in, total) ==
    IF words_in = <<>>
    THEN [ok |-> TRUE,
          segments |-> <<Silence(0, Round4(total),
                                 is_detected(SortByStart(silences_in), 0,
                                             0, Round4(total)).found)>>]
    ELSE LET words   == SortByStart(words_in)
             det_sil == SortByStart(silences_in)
             body    == word_loop(words, det_sil, 1,
                                  leading_silence(words, det_sil), 0)
         IN  IF body.ok
             THEN [ok |-> TRUE,
                   segments |-> body.segments \o
                       trailing_silence(words, det_sil, body.det_idx, total)]
             ELSE [ok |-> FALSE, segments |-> <<>>]

build_timeline(words_in, silences_in, total) ==
    IF words_in = <<>>
    THEN [ok |-> TRUE, segments |-> <<Silence(0, Round4(total), FALSE)>>]
    ELSE LET words   == SortByStart(words_in)
             det_sil == SortByStart(silences_in)
             body    == word_loop(words, det_sil, 1,
                                  leading_silence(words, det_sil), 0)
         IN  IF body.ok
             THEN [ok |-> TRUE,
                   segments |-> body.segments \o
                       trailing_silence(words, det_sil, body.det_idx, total)]
             ELSE [ok |-> FALSE, segments |-> <<>>]

\* sorted(deleted_indices)
RECURSIVE SortedIndices(_)
SortedIndices(S) ==
    IF S = {} THEN <<>>
    ELSE LET m == CHOOSE x \in S : \A y \in S : x <= y
         IN  <<m>> \o SortedIndices(S \ {m})

\* the loop that collects deleted_intervals
RECURSIVE collect_deleted(_, _, _)
collect_deleted(segs, idxs, buf) ==
    IF idxs = <<>> THEN <<>>
    ELSE LET seg  == segs[idxs[1] + 1]
             rest == collect_deleted(segs, Tail(idxs), buf)
         IN  IF isSilence(seg)
             THEN LET r == deletable_range(seg, buf)
                  IN  IF r # None THEN <<r>> \o rest ELSE rest
             ELSE <<<<seg.start, seg.end>>>> \o rest

\* deleted_intervals.sort(key=lambda x: x[0]): stable
RECURSIVE InsertByFirst(_, _)
InsertByFirst(x, s) ==
    IF s = <<>> THEN <<x>>
    ELSE IF s[Len(s)][1] <= x[1] THEN Append(s, x)
    ELSE Append(InsertByFirst(x, SubSeq(s, 1, Len(s) - 1)), s[Len(s)])

RECURSIVE SortByFirst(_)
SortByFirst(s) ==
    IF s = <<>> THEN <<>>
    ELSE InsertByFirst(s[Len(s)], SortByFirst(SubSeq(s, 1, Len(s) - 1)))

\* the sweep merge, "start <= merged_del[-1][1]"
touches(start, last_end) == start <= last_end

RECURSIVE merge_intervals(_, _)
merge_intervals(ivs, merged_del) ==
    IF ivs = <<>> THEN merged_del
    ELSE LET start == ivs[1][1]
             end   == ivs[1][2]
             n     == Len(merged_del)
         IN  IF n > 0 /\ touches(start, merged_del[n][2])
             THEN merge_intervals(Tail(ivs),
                      [merged_del EXCEPT ![n] = <<merged_del[n][1],
                                                  Max(merged_del[n][2], end)>>])
             ELSE merge_intervals(Tail(ivs), Append(merged_del, <<start, end>>))

merged_deleted(segs, deleted_indices, buf) ==
    merge_intervals(SortByFirst(collect_deleted(segs, SortedIndices(deleted_indices), buf)),
                    <<>>)

\* the test "del_start > cursor + 0.001"
keep_before(cursor, del_start) == del_start > cursor + KEEP_TOL

\* the test "cursor < total_duration - 0.001"
\* (variant: the tail test without the tolerance)
keep_tail_no_tolerance(cursor, total) == cursor < total

keep_tail(cursor, total) == cursor < total - KEEP_TOL

\* the complement loop
RECURSIVE complement(_, _, _, _)
complement(merged_del, cursor, keep_acc, total) ==
    IF merged_del = <<>>
    THEN IF keep_tail(cursor, total)
         THEN Append(keep_acc, <<cursor, Round4(total)>>)
         ELSE keep_acc
    ELSE LET del_start == Round4(merged_del[1][1])
             del_end   == Round4(merged_del[1][2])
         IN  complement(Tail(merged_del), del_end,
                        IF keep_before(cursor, del_start)
                        THEN Append(keep_acc, <<cursor, del_start>>)
                        ELSE keep_acc,
                        total)

\* (variant: the result list lives on between calls, as a mutable default
\* argument does, and every call appends to it)
get_keep_ranges_accumulating(segs, deleted_indices, buf, total) ==
    LET deleted_intervals == collect_deleted(segs, SortedIndices(deleted_indices), buf)
    IN  IF deleted_intervals = <<>>
        THEN <<<<0, total>>>>
        ELSE complement(merge_intervals(SortByFirst(deleted_intervals), <<>>),
                        0, keep, total)

\* (variant: no early return when nothing is deleted)
get_keep_ranges_no_early_return(segs, deleted_indices, buf, total) ==
    complement(merge_intervals(SortByFirst(
                   collect_deleted(segs, SortedIndices(deleted_indices), buf)), <<>>),
               0, <<>>, total)

get_keep_ranges(segs, deleted_indices, buf, total) ==
    LET deleted_intervals == collect_deleted(segs, SortedIndices(deleted_indices), buf)
    IN  IF deleted_intervals = <<>>
        THEN <<<<0, total>>>>
        ELSE complement(merge_intervals(SortByFirst(deleted_intervals), <<>>),
                        0, <<>>, total)

\* "seg = segments[idx]" on a Python list: an index from -len to -1 counts
\* from the end, any index outside -len .. len-1 raises IndexError
index_error(segs, deleted_indices) ==
    \E idx \in deleted_indices : idx >= Len(segs) \/ idx < 0 - Len(segs)

list_position(segs, idx) == IF idx < 0 THEN Len(segs) + idx ELSE idx

\* (variant: an index that denotes no segment is skipped)
get_keep_ranges_call_skipping(segs, deleted_indices, buf, total) ==
    [ok   |-> TRUE,
     keep |-> get_keep_ranges(
                  segs,
                  {list_position(segs, idx) :
                      idx \in {i \in deleted_indices : ~ index_error(segs, {i})}},
                  buf, total)]

\* a call of get_keep_ranges with any set of integers: ok = FALSE is the
\* IndexError raised in the first loop, before any list is returned
get_keep_ranges_call(segs, deleted_indices, buf, total) ==
    IF index_error(segs, deleted_indices)
    THEN [ok |-> FALSE, keep |-> <<>>]
    ELSE [ok   |-> TRUE,
          keep |-> get_keep_ranges(
                       segs,
                       {list_position(segs, idx) : idx \in deleted_indices},
                       buf, total)]

\* Project.time_saved over project.deleted (a sorted list of indices)
RECURSIVE time_saved_loop(_, _, _)
time_saved_loop(segs, idxs, buf) ==
    IF idxs = <<>> THEN 0
    ELSE LET seg  == segs[idxs[1] + 1]
             rest == time_saved_loop(segs, Tail(idxs), buf)
         IN  IF isSilence(seg)
             THEN LET r == deletable_range(seg, buf)
                  IN  IF r # None THEN (r[2] - r[1]) + rest ELSE rest
             ELSE duration(seg) + rest

time_saved(segs, deleted_indices, buf) ==
    time_saved_loop(segs, SortedIndices(deleted_indices), buf)

\* ------------------------------------------------------------ the inputs
\* Speech units as the transcriber / caption parser deliver them (rounded to
\* 4 decimals, start < end, not overlapping): a unit at 0, a unit that
\* touches it, a unit 5 ms later, a unit 5 ms after that one (80 ms after
\* the second), a unit after a long pause.
Hello == TextSegment("Hello", 0, 20000)
So    == TextSegment("so", 20000, 50000)
Um    == TextSegment("um", 50500, 57500)
Well  == TextSegment("well", 58000, 100000)
World == TextSegment("world", 250000, 300000)

WordPool == {Hello, So, Um, Well, World}

\* Detected silences as the detector delivers them (rounded to 4 decimals);
\* they overlap each other, and overlap the gaps by 0.9 ms, 1.1 ms or more
DetPool == {Silence(50000, 250000, TRUE),
            Silence(19890, 50090, TRUE),
            Silence(99000, 100110, TRUE),
            Silence(0, 300000, TRUE)}

\* the clip lengths: an empty clip, 1 ms, 3 s, and 0.44 ms longer (off the grid)
Durations == {0, 100, 300000, 300044}

\* values a caller may ask SilenceSettings to hold as the buffer
RawBuffers == {0 - 5000, 114, 5000}

DEFAULT_BUFFER == 5000

\* the elements of S as a sequence, by ascending start
RECURSIVE Ascending(_)
Ascending(S) ==
    IF S = {} THEN <<>>
    ELSE LET m == CHOOSE x \in S : \A y \in S : x.start < y.start
                                        \/ (x.start = y.start /\ x.end <= y.end)
         IN  <<m>> \o Ascending(S \ {m})

Reverse(s) == [i \in 1..Len(s) |-> s[Len(s) + 1 - i]]

\* the lists a caller may pass: any choice of pool elements, in either order
Lists(Pool, n) ==
    UNION {{Ascending(S), Reverse(Ascending(S))} :
           S \in {T \in SUBSET Pool : Cardinality(T) <= n}}

Indices(segs) == 0..(Len(segs) - 1)

\* the text of an entry field: a number, or text float() cannot parse
Text(v) == [number |-> TRUE, value |-> v]
Unparseable == [number |-> FALSE, value |-> 0]

\* no session file has been written
NoFile == [type |-> "none"]

\* no edit has been made
NoOp == [phase |-> "none", before |-> {}, after |-> {}]

\* no editor is open
NoSession ==
    /\ project_deleted = <<>>
    /\ selected = {}
    /\ undo_stack = <<>>
    /\ redo_stack = <<>>
    /\ shown = 0
    /\ refresh = 0
    /\ workers = <<>>
    /\ issued = {}
    /\ spin_value = 0
    /\ spin_entry = Unparseable
    /\ timer = FALSE
    /\ disk = NoFile
    /\ last_op = NoOp
    /\ playing = FALSE
    /\ loops = <<>>
    /\ cap_pos = 0

\* ------------------------------------------------------------ the machine
Init ==
    /\ text_segments \in Lists(WordPool, MaxWords)
    /\ detected_silences \in Lists(DetPool, MaxDet)
    /\ video_duration \in Durations
    /\ segments = <<>>
    /\ deleted = {}
    /\ buffer = SilenceSettings(DEFAULT_BUFFER)
    /\ keep = <<>>
    /\ pc = "input"
    /\ NoSession

\* segments = build_timeline(words, silences, duration, settings); the
\* project starts with no deletion
CallBuildTimeline ==
    /\ pc = "input"
    /\ LET r == build_timeline(text_segments, detected_silences, video_duration)
       IN  /\ segments' = r.segments
           /\ pc' = IF r.ok THEN "built" ELSE "raised"
    /\ UNCHANGED <<text_segments, detected_silences, video_duration,
                   deleted, buffer, keep>>
    /\ UNCHANGED session_vars

\* keep = get_keep_ranges(segments, deleted, settings.buffer, duration), for
\* any valid deletion set, and for the buffer a SilenceSettings holds; a
\* further call keeps the deletion set and re-tunes the buffer
CallGetKeepRanges(D, raw_buffer) ==
    /\ pc = "built" \/ (pc = "resolved" /\ D = deleted)
    /\ D \subseteq Indices(segments)
    /\ Cardinality(D) <= MaxDeleted
    /\ deleted' = D
    /\ buffer' = SilenceSettings(raw_buffer)
    /\ keep' = get_keep_ranges(segments, D, buffer', video_duration)
    /\ pc' = "resolved"
    /\ UNCHANGED <<text_segments, detected_silences, video_duration, segments>>
    /\ UNCHANGED session_vars

Next ==
    \/ CallBuildTimeline
    \/ \E D \in SUBSET Indices(segments), raw \in RawBuffers :
           CallGetKeepRanges(D, raw)

Spec == Init /\ [][Next]_vars

\* ------------------------------------------- Silence.deletable_range alone
\* a silence and a buffer of any size, on or off the 4-decimal grid
DRStarts == {0, 4, 50000}
DREnds == {96, 300, 50104, 58000, 60100}
DRBuffers == {0 - 100, 0, 2, 4, 10, 100, 5000}

InitDeletable ==
    /\ \E s \in DRStarts, e \in DREnds, d \in BOOLEAN :
           /\ s < e
           /\ segments = <<Silence(s, e, d)>>
           /\ video_duration = e
    /\ buffer \in DRBuffers
    /\ text_segments = <<>>
    /\ detected_silences = <<>>
    /\ deleted = {}
    /\ keep = <<>>
    /\ pc = "input"
    /\ NoSession

\* keep holds the returned range, or nothing for None
CallDeletableRange ==
    /\ pc = "input"
    /\ LET r == deletable_range(segments[1], buffer)
       IN  keep' = IF r = None THEN <<>> ELSE <<r>>
    /\ pc' = "called"
    /\ UNCHANGED <<text_segments, detected_silences, video_duration,
                   segments, deleted, buffer>>
    /\ UNCHANGED session_vars

NextDeletable == CallDeletableRange

SpecDeletable == InitDeletable /\ [][NextDeletable]_vars

\* ------------------------------------------------ build_timeline alone
\* units that are not well-formed: an inverted one and an empty one
Inverted == TextSegment("inverted", 150000, 120000)
Empty    == TextSegment("empty", 200000, 200000)

MalformedPool == {Inverted, Empty}

InitBuilder ==
    /\ text_segments \in Lists(WordPool \cup MalformedPool, MaxWords)
    /\ detected_silences \in Lists(DetPool, MaxDet)
    /\ video_duration \in Durations
    /\ segments = <<>>
    /\ deleted = {}
    /\ buffer = SilenceSettings(DEFAULT_BUFFER)
    /\ keep = <<>>
    /\ pc = "input"
    /\ NoSession

NextBuilder == CallBuildTimeline

SpecBuilder == InitBuilder /\ [][NextBuilder]_vars

\* ------------------------------------- build_timeline on well-formed units
\* a unit at 0 that ends 5 ms before the next one starts, and a unit that
\* overlaps its neighbours
Oh  == TextSegment("oh", 0, 19500)
And == TextSegment("and", 10000, 30000)

WellFormedPool == WordPool \cup {Oh, And}

InitWellFormed ==
    /\ text_segments \in Lists(WellFormedPool, MaxWords)
    /\ detected_silences \in Lists(DetPool, MaxDet)
    /\ video_duration \in Durations
    /\ segments = <<>>
    /\ deleted = {}
    /\ buffer = SilenceSettings(DEFAULT_BUFFER)
    /\ keep = <<>>
    /\ pc = "input"
    /\ NoSession

SpecWellFormed == InitWellFormed /\ [][NextBuilder]_vars

\* ------------------------------------------------ get_keep_ranges alone
\* the buffers a caller may pass to get_keep_ranges directly
ArgBuffers == {0 - 5000, 0, 5000}

\* the indices a caller may pass: those of the timeline, the last segment
\* counted from the end, and the two just outside the list
ArgIndices(segs) == (0 - Len(segs) - 1)..(0 - Len(segs)) \cup  {0 - 1}
                        \cup Indices(segs) \cup {Len(segs)}

\* deleted and buffer hold the arguments of the call, keep the list returned
CallGetKeepRangesWith(D, buf) ==
    /\ pc = "built"
    /\ D \subseteq ArgIndices(segments)
    /\ Cardinality(D) <= MaxDeleted
    /\ deleted' = D
    /\ buffer' = buf
    /\ LET r == get_keep_ranges_call(segments, D, buf, video_duration)
       IN  /\ keep' = r.keep
           /\ pc' = IF r.ok THEN "resolved" ELSE "index_error"
    /\ UNCHANGED <<text_segments, detected_silences, video_duration, segments>>
    /\ UNCHANGED session_vars

InitResolver ==
    /\ text_segments \in Lists(WordPool, MaxWords)
    /\ detected_silences = <<>>
    /\ video_duration \in {300000, 300044}
    /\ segments = <<>>
    /\ deleted = {}
    /\ buffer = SilenceSettings(DEFAULT_BUFFER)
    /\ keep = <<>>
    /\ pc = "input"
    /\ NoSession

NextResolver ==
    \/ CallBuildTimeline
    \/ \E D \in SUBSET ArgIndices(segments), buf \in ArgBuffers :
           CallGetKeepRangesWith(D, buf)

SpecResolver == InitResolver /\ [][NextResolver]_vars

\* ------------------------------------- a session: main.py, the editor
\* format(v, ".3f") as float() reads it back: the nearest multiple of 1 ms
Millis == 100

RoundMillis(x) ==
    LET q == x \div Millis
        r == x % Millis
    IN  IF 2 * r < Millis THEN Millis * q
        ELSE IF 2 * r > Millis THEN Millis * (q + 1)
        ELSE IF q % 2 = 0 THEN Millis * q ELSE Millis * (q + 1)

Format3(v) == IF v >= 0 THEN RoundMillis(v) ELSE 0 - RoundMillis(0 - v)

\* the step of the buffer spin box, and the window of values the arrow
\* buttons are followed in
SpinStep == 100
SpinBelow == 200
SpinHigh == 300
SpinLow == 0 - SpinBelow

\* _SpinEntry.get()
spin_get == IF spin_entry.number THEN spin_entry.value ELSE spin_value

\* what a user may type into the buffer field
TypedTexts == {Text(0 - 5000), Text(0), Text(4), Text(260), Unparseable}

\* the --buffer option of the command line
CliBuffers == {0 - 5000, 0, 114, 5000}

\* session files: the timeline build_timeline returns for World in a 3 s
\* clip, and one without the silence before it; deleted-index lists, one
\* with an index that denotes no segment; buffers
PersistedTimelines == {<<Silence(0, 250000, TRUE), World>>, <<World>>}
PersistedDeleted == {<<>>, <<0>>, <<0, 2>>}
PersistedBuffers == {0 - 5000, 0, 5000}

\* Project.to_dict, as json.dump writes it and json.load reads it back
segment_dict(s) ==
    IF isTextSegment(s)
    THEN [type |-> "text", text |-> s.text, start |-> s.start, end |-> s.end]
    ELSE [type |-> "silence", start |-> s.start, end |-> s.end,
          is_detected |-> s.is_detected]

to_dict(segs, deleted_list, buf, total) ==
    [video_duration   |-> total,
     deleted          |-> deleted_list,
     silence_settings |-> [buffer |-> buf],
     segments         |-> [i \in 1..Len(segs) |-> segment_dict(segs[i])]]

\* Project.load: one entry of data["segments"]
\* (variant: every silence is read as a detected one)
load_segment_detected(d) ==
    IF d.type = "text" THEN TextSegment(d.text, d.start, d.end)
    ELSE Silence(d.start, d.end, TRUE)

load_segment(d) ==
    IF d.type = "text" THEN TextSegment(d.text, d.start, d.end)
    ELSE Silence(d.start, d.end, d.is_detected)

\* Project.load: the Project it returns
load(data) ==
    [segments       |-> [i \in 1..Len(data.segments) |-> load_segment(data.segments[i])],
     deleted        |-> data.deleted,
     buffer         |-> SilenceSettings(data.silence_settings.buffer),
     video_duration |-> data.video_duration]

Persisted ==
    {to_dict(segs, deleted_list, buf, 300000) :
        segs \in PersistedTimelines, deleted_list \in PersistedDeleted,
        buf \in PersistedBuffers}

\* OpenCVPlayer._rebuild_keep_ranges
rebuild_keep_ranges(segs, deleted_list, buf, total) ==
    LET k == get_keep_ranges(segs, Range(deleted_list), buf, total)
    IN  IF k = <<>> THEN << <<0, total>> >> ELSE k

\* Project.time_saved raises IndexError
time_saved_raises(segs, deleted_list) == index_error(segs, Range(deleted_list))

InitSession ==
    /\ text_segments \in Lists({Hello, World}, MaxWords)
    /\ detected_silences \in Lists({Silence(50000, 250000, TRUE)}, MaxDet)
    /\ video_duration = 300000
    /\ segments = <<>>
    /\ deleted = {}
    /\ buffer = SilenceSettings(DEFAULT_BUFFER)
    /\ keep = <<>>
    /\ pc = "input"
    /\ NoSession

\* main.py _process_video / _process_fcpxml
ProcessVideo(cli_buffer) ==
    /\ pc = "input"
    /\ buffer' = SilenceSettings(Max(BUFFER_FLOOR, cli_buffer))
    /\ LET r == build_timeline(text_segments, detected_silences, video_duration)
       IN  /\ segments' = r.segments
           /\ pc' = IF r.ok THEN "processed" ELSE "raised"
    /\ project_deleted' = <<>>
    /\ UNCHANGED <<input_vars, disk, last_op, player_vars,
                   video_duration, deleted, keep, edit_vars,
                   thread_vars, spin_vars>>

\* Project.load
Load(data) ==
    /\ pc \in {"input", "saved"}
    /\ LET project == load(data)
       IN  /\ segments' = project.segments
           /\ project_deleted' = project.deleted
           /\ buffer' = project.buffer
           /\ video_duration' = project.video_duration
    /\ pc' = "loaded"
    /\ UNCHANGED <<input_vars, disk, last_op, player_vars, deleted, keep,
                   edit_vars, thread_vars, spin_vars>>

\* Project.save
Save ==
    /\ pc \in {"processed", "loaded"}
    /\ disk' = to_dict(segments, project_deleted, buffer, video_duration)
    /\ pc' = "saved"
    /\ UNCHANGED <<input_vars, last_op, player_vars, video_duration, segments,
                   deleted, buffer, keep, project_deleted, edit_vars,
                   thread_vars, spin_vars>>

\* TextEditor.__init__ on the project, and the player that is attached:
\* _update_status ends the construction with IndexError when a deleted
\* index denotes no segment
LaunchEditor ==
    /\ pc \in {"processed", "loaded"}
    /\ deleted' = Range(project_deleted)
    /\ selected' = {}
    /\ undo_stack' = <<>>
    /\ redo_stack' = <<>>
    /\ spin_value' = buffer
    /\ spin_entry' = Text(Format3(buffer))
    /\ shown' = Len(segments)
    /\ IF time_saved_raises(segments, project_deleted)
       THEN pc' = "crashed" /\ keep' = keep
       ELSE /\ pc' = "editing"
            /\ keep' = rebuild_keep_ranges(segments, project_deleted, buffer,
                                           video_duration)
    /\ UNCHANGED <<input_vars, disk, last_op, player_vars,
                   video_duration, segments, buffer,
                   project_deleted, refresh, workers, issued, timer>>

\* the user edits the text of the buffer field
TypeEntry(text) ==
    /\ pc = "editing"
    /\ spin_entry' = text
    /\ UNCHANGED <<input_vars, disk, last_op, player_vars,
                   video_duration, segments, deleted, buffer, keep,
                   pc, project_deleted, edit_vars, thread_vars, spin_value, timer>>

\* _SpinEntry._sync with the new _value, and _on_setting_change
spin_sync(v) ==
    /\ spin_value' = v
    /\ spin_entry' = Text(Format3(v))
    /\ timer' = TRUE
    /\ UNCHANGED <<input_vars, disk, last_op, player_vars,
                   video_duration, segments, deleted, buffer, keep,
                   pc, project_deleted, edit_vars, thread_vars>>

\* _SpinEntry._on_commit (Return, or the field loses the focus)
SpinCommit ==
    /\ pc = "editing"
    /\ spin_sync(spin_get)

\* _SpinEntry._inc, _dec
SpinInc ==
    /\ pc = "editing"
    /\ spin_value + SpinStep <= SpinHigh
    /\ spin_value + SpinStep >= SpinLow
    /\ spin_sync(spin_value + SpinStep)

SpinDec ==
    /\ pc = "editing"
    /\ spin_value - SpinStep >= SpinLow
    /\ spin_value - SpinStep <= SpinHigh
    /\ spin_sync(spin_value - SpinStep)

\* TextEditor._apply_setting_change, when the 150 ms timer fires
ApplySettingChange ==
    /\ pc = "editing"
    /\ timer
    /\ timer' = FALSE
    /\ buffer' = SilenceSettings(Max(BUFFER_FLOOR, spin_get))
    /\ UNCHANGED <<input_vars, disk, last_op, player_vars,
                   video_duration, segments, deleted, keep, pc,
                   project_deleted, edit_vars, thread_vars, spin_value, spin_entry>>

NextSession ==
    \/ \E b \in CliBuffers : ProcessVideo(b)
    \/ \E data \in Persisted : Load(data)
    \/ LaunchEditor
    \/ \E text \in TypedTexts : TypeEntry(text)
    \/ SpinCommit
    \/ SpinInc
    \/ SpinDec
    \/ ApplySettingChange

SpecSession == InitSession /\ [][NextSession]_vars

\* --------------------------------------------- Project.save, Project.load
\* the projects the command line builds or loads, saved and loaded again
NextPersist ==
    \/ \E b \in CliBuffers : ProcessVideo(b)
    \/ \E data \in Persisted : pc = "input" /\ Load(data)
    \/ Save
    \/ pc = "saved" /\ Load(disk)

SpecPersist == InitSession /\ [][NextPersist]_vars

\* ------------------------------- the editor: edits and re-analysis threads
\* the depth the undo stack is followed to, and the re-analyses started
MaxUndo == 1
MaxWorkers == 2

\* what detect_silences may return to a re-analysis
NewSilences == {<<>>, <<Silence(0, 251000, TRUE)>>}

\* the session files an editor is opened on: those with deletions
EditorFiles ==
    {data \in Persisted :
        data.silence_settings.buffer = DEFAULT_BUFFER /\ data.deleted # <<>>}

\* _refresh_seg(idx) raises IndexError for an idx of S: the transcript shows
\* a segment idx and the project has none
refresh_raises(S) ==
    \E idx \in S : idx >= 0 /\ idx < shown /\ idx >= Len(segments)

\* a re-analysis thread has not ended
Running(w) == w.pc \notin {"done", "failed"}
InFlight == \E i \in 1..Len(workers) : Running(workers[i])

\* the selections a click, Ctrl+A or Esc make
Selections == {{idx} : idx \in 0..(shown - 1)} \cup {Indices(segments), {}}

\* _set_selection(new_sel)
Select(new_sel) ==
    /\ pc = "editing"
    /\ new_sel # selected
    /\ selected' = new_sel
    /\ UNCHANGED <<input_vars, disk, last_op, player_vars,
                   video_duration, segments, deleted, buffer, keep,
                   pc, project_deleted, undo_stack, redo_stack, thread_vars,
                   spin_vars>>

\* history: an edit took the deletion set from before to after
Edited(before, after) == [phase |-> "edited", before |-> before, after |-> after]

\* the common end of the edit handlers, from _clear_sel() to
\* player.set_project(): an IndexError in _refresh_seg or in _update_status
\* (Project.time_saved) ends the handler where it is raised
finish_edit(new_deleted, changed) ==
    /\ deleted' = new_deleted
    /\ selected' = {}
    /\ IF \/ refresh_raises(selected)
          \/ time_saved_raises(segments, project_deleted)
          \/ refresh_raises(changed)
       THEN UNCHANGED <<project_deleted, keep>>
       ELSE /\ project_deleted' = SortedIndices(new_deleted)
            /\ keep' = IF time_saved_raises(segments, project_deleted')
                       THEN keep
                       ELSE rebuild_keep_ranges(segments, project_deleted',
                                                buffer, video_duration)
    /\ UNCHANGED <<input_vars, disk, player_vars, video_duration, segments,
                   buffer, pc, shown, refresh, workers, spin_vars>>

\* _delete_sel
DeleteSel ==
    /\ pc = "editing"
    /\ selected # {}
    /\ Len(undo_stack) < MaxUndo
    /\ undo_stack' = Append(undo_stack, deleted)
    /\ redo_stack' = <<>>
    /\ finish_edit(deleted \cup selected, selected)
    /\ issued' = IF InFlight THEN issued \cup selected ELSE issued
    /\ last_op' = Edited(deleted, deleted \cup selected)

\* _restore_sel
RestoreSel ==
    /\ pc = "editing"
    /\ selected # {}
    /\ Len(undo_stack) < MaxUndo
    /\ undo_stack' = Append(undo_stack, deleted)
    /\ redo_stack' = <<>>
    /\ finish_edit(deleted \ selected, selected)
    /\ issued' = issued \ selected
    /\ last_op' = Edited(deleted, deleted \ selected)

\* _undo
Undo ==
    /\ pc = "editing"
    /\ undo_stack # <<>>
    /\ redo_stack' = Append(redo_stack, deleted)
    /\ LET prev == undo_stack[Len(undo_stack)]
       IN  /\ undo_stack' = SubSeq(undo_stack, 1, Len(undo_stack) - 1)
           /\ finish_edit(prev, (deleted \ prev) \cup (prev \ deleted))
           /\ issued' = issued \cap prev
    /\ last_op' = IF last_op.phase \in {"edited", "redone"}
                  THEN [last_op EXCEPT !.phase = "undone"]
                  ELSE NoOp

\* _redo
Redo ==
    /\ pc = "editing"
    /\ redo_stack # <<>>
    /\ undo_stack' = Append(undo_stack, deleted)
    /\ LET nxt == redo_stack[Len(redo_stack)]
       IN  /\ redo_stack' = SubSeq(redo_stack, 1, Len(redo_stack) - 1)
           /\ finish_edit(nxt, (deleted \ nxt) \cup (nxt \ deleted))
           /\ issued' = issued \cap nxt
    /\ last_op' = IF last_op.phase = "undone"
                  THEN [last_op EXCEPT !.phase = "redone"]
                  ELSE NoOp

\* the end of the handlers that keep the selection, from the _refresh_seg
\* loop to player.set_project()
finish_keeping_selection(new_deleted, changed) ==
    /\ deleted' = new_deleted
    /\ selected' = selected
    /\ IF refresh_raises(changed)
       THEN UNCHANGED <<project_deleted, keep>>
       ELSE /\ project_deleted' = SortedIndices(new_deleted)
            /\ keep' = IF time_saved_raises(segments, project_deleted')
                       THEN keep
                       ELSE rebuild_keep_ranges(segments, project_deleted',
                                                buffer, video_duration)
    /\ UNCHANGED <<input_vars, disk, player_vars, video_duration, segments,
                   buffer, pc, shown, refresh, workers, spin_vars>>

\* _auto_delete: every detected silence of at least min_duration that
\* survives the buffer
DEFAULT_MIN_DURATION == 30000

auto_deletable_from_one ==
    {i + 1 : i \in {j \in Indices(segments) :
        /\ isSilence(segments[j + 1])
        /\ segments[j + 1].is_detected
        /\ duration(segments[j + 1]) >= DEFAULT_MIN_DURATION
        /\ deletable_range(segments[j + 1], buffer) # None}}

auto_deletable ==
    {i \in Indices(segments) :
        /\ isSilence(segments[i + 1])
        /\ segments[i + 1].is_detected
        /\ duration(segments[i + 1]) >= DEFAULT_MIN_DURATION
        /\ deletable_range(segments[i + 1], buffer) # None}

AutoDelete ==
    /\ pc = "editing"
    /\ Len(undo_stack) < MaxUndo
    /\ undo_stack' = Append(undo_stack, deleted)
    /\ redo_stack' = <<>>
    /\ finish_keeping_selection(deleted \cup auto_deletable,
                                auto_deletable \ deleted)
    /\ issued' = IF InFlight THEN issued \cup auto_deletable ELSE issued
    /\ last_op' = Edited(deleted, deleted \cup auto_deletable)

\* _restore_all
RestoreAll ==
    /\ pc = "editing"
    /\ Len(undo_stack) < MaxUndo
    /\ undo_stack' = Append(undo_stack, deleted)
    /\ redo_stack' = <<>>
    /\ finish_edit({}, deleted)
    /\ issued' = {}
    /\ last_op' = Edited(deleted, {})

\* _um_checker: the filler words of the transcript, and the deletion of the
\* hard ones or of all of them, as chosen in the dialog
UM_HARD == {"um"}
UM_SOFT == {"so", "well"}

filler_indices(words) ==
    {i \in Indices(segments) :
        isTextSegment(segments[i + 1]) /\ segments[i + 1].text \in words}

FillerDelete(words) ==
    /\ pc = "editing"
    /\ filler_indices(UM_HARD \cup UM_SOFT) # {}
    /\ Len(undo_stack) < MaxUndo
    /\ undo_stack' = Append(undo_stack, deleted)
    /\ redo_stack' = <<>>
    /\ finish_keeping_selection(deleted \cup filler_indices(words),
                                filler_indices(words))
    /\ issued' = IF InFlight THEN issued \cup filler_indices(words) ELSE issued
    /\ last_op' = Edited(deleted, deleted \cup filler_indices(words))

\* _reanalyse: a thread is started; new_sil is what detect_silences will
\* return to it for the settings of this moment
Reanalyse(new_sil) ==
    /\ pc = "editing"
    /\ Len(workers) < MaxWorkers
    /\ workers' = Append(workers, [pc |-> "build", new_sil |-> new_sil,
                                   new_segs |-> <<>>, kept |-> <<>>,
                                   overlapped |-> InFlight])
    /\ UNCHANGED <<input_vars, disk, last_op, player_vars,
                   video_duration, segments, deleted, buffer, keep,
                   pc, project_deleted, edit_vars, shown, refresh, issued,
                   spin_vars>>

\* the statements of worker(), one step each
\* words = [...]; new_segs = build_timeline(words, new_sil, duration, settings)
WorkerBuild(i) ==
    /\ workers[i].pc = "build"
    /\ LET words == SelectSeq(segments, isTextSegment)
           r == build_timeline(words, workers[i].new_sil, video_duration)
       IN  workers' = [workers EXCEPT ![i] =
                          IF r.ok
                          THEN [@ EXCEPT !.pc = "install", !.new_segs = r.segments]
                          ELSE [@ EXCEPT !.pc = "failed"]]
    /\ UNCHANGED <<input_vars, disk, last_op, player_vars,
                   video_duration, segments, deleted, buffer, keep,
                   pc, project_deleted, edit_vars, shown, refresh, issued,
                   spin_vars>>

\* self.project.segments = new_segs
WorkerInstall(i) ==
    /\ workers[i].pc = "install"
    /\ segments' = workers[i].new_segs
    /\ workers' = [workers EXCEPT ![i].pc = "read"]
    /\ UNCHANGED <<input_vars, disk, last_op, player_vars,
                   video_duration, deleted, buffer, keep, pc,
                   project_deleted, edit_vars, shown, refresh, issued, spin_vars>>

\* [i for i in self.project.deleted if i < len(new_segs)]
WorkerRead(i) ==
    /\ workers[i].pc = "read"
    /\ LET fits(idx) == idx < Len(workers[i].new_segs)
       IN  workers' = [workers EXCEPT ![i] =
                          [@ EXCEPT !.pc = "write",
                                    !.kept = SelectSeq(project_deleted, fits)]]
    /\ UNCHANGED <<input_vars, disk, last_op, player_vars,
                   video_duration, segments, deleted, buffer, keep,
                   pc, project_deleted, edit_vars, shown, refresh, issued,
                   spin_vars>>

\* self.project.deleted = that list
WorkerWrite(i) ==
    /\ workers[i].pc = "write"
    /\ project_deleted' = workers[i].kept
    /\ workers' = [workers EXCEPT ![i] = [@ EXCEPT !.pc = "copy", !.kept = <<>>]]
    /\ UNCHANGED <<input_vars, disk, last_op, player_vars,
                   video_duration, segments, deleted, buffer, keep,
                   pc, edit_vars, shown, refresh, issued, spin_vars>>

\* self.deleted = set(self.project.deleted)
WorkerCopy(i) ==
    /\ workers[i].pc = "copy"
    /\ deleted' = Range(project_deleted)
    /\ workers' = [workers EXCEPT ![i].pc = "clear"]
    /\ UNCHANGED <<input_vars, disk, last_op, player_vars,
                   video_duration, segments, buffer, keep, pc,
                   project_deleted, edit_vars, shown, refresh, issued, spin_vars>>

\* self.selected = set(); self.after(0, self._full_refresh)
WorkerClear(i) ==
    /\ workers[i].pc = "clear"
    /\ selected' = {}
    /\ refresh' = refresh + 1
    /\ workers' = [workers EXCEPT ![i].pc = "done"]
    /\ UNCHANGED <<input_vars, disk, last_op, player_vars,
                   video_duration, segments, deleted, buffer, keep,
                   pc, project_deleted, undo_stack, redo_stack, shown, issued,
                   spin_vars>>

\* _full_refresh, on the UI thread
FullRefresh ==
    /\ pc = "editing"
    /\ refresh > 0
    /\ refresh' = refresh - 1
    /\ shown' = Len(segments)
    /\ UNCHANGED <<input_vars, disk, last_op, player_vars,
                   video_duration, segments, deleted, buffer, keep,
                   pc, project_deleted, edit_vars, workers, issued, spin_vars>>

InitEditor ==
    /\ text_segments = <<World>>
    /\ detected_silences = <<>>
    /\ video_duration = 300000
    /\ segments = <<>>
    /\ deleted = {}
    /\ buffer = SilenceSettings(DEFAULT_BUFFER)
    /\ keep = <<>>
    /\ pc = "input"
    /\ NoSession

NextEditor ==
    \/ ProcessVideo(DEFAULT_BUFFER)
    \/ \E data \in EditorFiles : Load(data)
    \/ LaunchEditor
    \/ \E new_sel \in Selections : Select(new_sel)
    \/ DeleteSel
    \/ RestoreSel
    \/ Undo
    \/ Redo
    \/ ~ InFlight /\ Reanalyse(<<>>)
    \/ \E i \in 1..Len(workers) : WorkerBuild(i)
    \/ \E i \in 1..Len(workers) : WorkerInstall(i)
    \/ \E i \in 1..Len(workers) : WorkerRead(i)
    \/ \E i \in 1..Len(workers) : WorkerWrite(i)
    \/ \E i \in 1..Len(workers) : WorkerCopy(i)
    \/ \E i \in 1..Len(workers) : WorkerClear(i)
    \/ FullRefresh

SpecEditor == InitEditor /\ [][NextEditor]_vars

\* re-analyses alone, started at any time, on a session nobody edits
NextReanalysis ==
    \/ ProcessVideo(DEFAULT_BUFFER)
    \/ \E data \in EditorFiles : Load(data)
    \/ LaunchEditor
    \/ \E new_sil \in NewSilences : Reanalyse(new_sil)
    \/ \E i \in 1..Len(workers) : WorkerBuild(i)
    \/ \E i \in 1..Len(workers) : WorkerInstall(i)
    \/ \E i \in 1..Len(workers) : WorkerRead(i)
    \/ \E i \in 1..Len(workers) : WorkerWrite(i)
    \/ \E i \in 1..Len(workers) : WorkerCopy(i)
    \/ \E i \in 1..Len(workers) : WorkerClear(i)
    \/ FullRefresh

SpecReanalysis == InitEditor /\ [][NextReanalysis]_vars

\* every edit, undo and redo, around one re-analysis, on the project
\* the command line builds for the one unit "um" between two detected silences
InitEdits ==
    /\ text_segments = <<Um>>
    /\ detected_silences = <<Silence(50000, 250000, TRUE)>>
    /\ video_duration = 300000
    /\ segments = <<>>
    /\ deleted = {}
    /\ buffer = SilenceSettings(DEFAULT_BUFFER)
    /\ keep = <<>>
    /\ pc = "input"
    /\ NoSession

NextEdits ==
    \/ ProcessVideo(DEFAULT_BUFFER)
    \/ LaunchEditor
    \/ \E new_sel \in Selections : Select(new_sel)
    \/ DeleteSel
    \/ RestoreSel
    \/ AutoDelete
    \/ RestoreAll
    \/ \E words \in {UM_HARD, UM_HARD \cup UM_SOFT} : FillerDelete(words)
    \/ Undo
    \/ Redo
    \/ \E new_sil \in NewSilences : workers = <<>> /\ Reanalyse(new_sil)
    \/ \E i \in 1..Len(workers) : WorkerBuild(i)
    \/ \E i \in 1..Len(workers) : WorkerInstall(i)
    \/ \E i \in 1..Len(workers) : WorkerRead(i)
    \/ \E i \in 1..Len(workers) : WorkerWrite(i)
    \/ \E i \in 1..Len(workers) : WorkerCopy(i)
    \/ \E i \in 1..Len(workers) : WorkerClear(i)
    \/ FullRefresh

SpecEdits == InitEdits /\ [][NextEdits]_vars

\* ------------------------------------------- video_player.py: OpenCVPlayer
\* the clip as the capture delivers it: NFrames frames, FrameDur apart
FrameDur == 25000
NFrames == 12

\* play() is followed this many times in a session
MaxLoops == 2

\* a thread running _play_loop: where it is in the loop, and the time of the
\* frame it holds
PlayThread(at, t) == [pc |-> at, t |-> t]

\* OpenCVPlayer._in_keep
in_keep(t) == \E i \in 1..Len(keep) : keep[i][1] <= t /\ t <= keep[i][2]

\* OpenCVPlayer._next_keep_start
later_starts(t) == {i \in 1..Len(keep) : keep[i][1] > t}

next_keep_start(t) ==
    IF later_starts(t) = {}
    THEN None
    ELSE <<keep[CHOOSE i \in later_starts(t) : \A j \in later_starts(t) : i <= j][1]>>

\* the frames cap.set(CAP_PROP_POS_MSEC, ...) may leave the capture on: the
\* one that holds the position, or the one after it
frames_at(t) ==
    {t \div FrameDur} \cup
    (IF t % FrameDur = 0 THEN {} ELSE {Min(NFrames, t \div FrameDur + 1)})

\* play(): the part that starts a thread
start_playing ==
    /\ Len(loops) < MaxLoops
    /\ playing' = TRUE
    /\ loops' = Append(loops, PlayThread("test", 0))
    /\ UNCHANGED cap_pos

\* play()
Play ==
    /\ pc = "editing"
    /\ ~ playing
    /\ start_playing
    /\ UNCHANGED <<input_vars, disk, last_op, video_duration, segments,
                   deleted, buffer, keep, pc, project_deleted,
                   edit_vars, thread_vars, spin_vars>>

\* pause()
Pause ==
    /\ pc = "editing"
    /\ playing' = FALSE
    /\ UNCHANGED <<input_vars, disk, last_op, loops, cap_pos, video_duration,
                   segments, deleted, buffer, keep, pc, project_deleted,
                   edit_vars, thread_vars, spin_vars>>

\* toggle()
Toggle ==
    /\ pc = "editing"
    /\ IF playing
       THEN playing' = FALSE /\ UNCHANGED <<loops, cap_pos>>
       ELSE start_playing
    /\ UNCHANGED <<input_vars, disk, last_op, video_duration, segments,
                   deleted, buffer, keep, pc, project_deleted,
                   edit_vars, thread_vars, spin_vars>>

\* a step of thread i leaves everything but the player as it is
loop_step(i, at, t) ==
    /\ loops' = [loops EXCEPT ![i] = PlayThread(at, t)]
    /\ UNCHANGED <<input_vars, disk, last_op, video_duration, segments,
                   deleted, buffer, keep, pc, project_deleted,
                   edit_vars, thread_vars, spin_vars>>

\* _play_loop: while self._playing and self._cap is not None
LoopTest(i) ==
    /\ loops[i].pc = "test"
    /\ loop_step(i, IF playing THEN "read" ELSE "exit", loops[i].t)
    /\ UNCHANGED <<playing, cap_pos>>

\* _play_loop: the read under the lock, and t = pos_ms / 1000
LoopRead(i) ==
    /\ loops[i].pc = "read"
    /\ IF cap_pos >= NFrames
       THEN /\ playing' = FALSE
            /\ cap_pos' = cap_pos
            /\ loop_step(i, "exit", loops[i].t)
       ELSE /\ playing' = playing
            /\ cap_pos' = cap_pos + 1
            /\ loop_step(i, "check", cap_pos * FrameDur)

\* _play_loop: the skip of a deleted region
LoopCheck(i) ==
    /\ loops[i].pc = "check"
    /\ IF in_keep(loops[i].t)
       THEN /\ loop_step(i, "deliver", loops[i].t)
            /\ UNCHANGED <<playing, cap_pos>>
       ELSE LET nxt == next_keep_start(loops[i].t)
            IN  IF nxt = None
                THEN /\ playing' = FALSE
                     /\ cap_pos' = cap_pos
                     /\ loop_step(i, "exit", loops[i].t)
                ELSE /\ playing' = playing
                     /\ cap_pos' \in frames_at(nxt[1])
                     /\ loop_step(i, "test", loops[i].t)

\* _play_loop: the frame goes to the frame callback, then the sleep
LoopDeliver(i) ==
    /\ loops[i].pc = "deliver"
    /\ loop_step(i, "test", loops[i].t)
    /\ UNCHANGED <<playing, cap_pos>>

\* _play_loop: after the loop
LoopExit(i) ==
    /\ loops[i].pc = "exit"
    /\ playing' = FALSE
    /\ cap_pos' = cap_pos
    /\ loop_step(i, "done", loops[i].t)

\* session files of the 3 s clip with any of its two segments deleted
PlayerFiles ==
    {to_dict(<<Silence(0, 250000, TRUE), World>>, deleted_list, buf, 300000) :
        deleted_list \in {<<>>, <<0>>, <<1>>, <<0, 1>>},
        buf \in {0, DEFAULT_BUFFER}}

\* playback of a loaded project in the editor
NextPlayer ==
    \/ \E data \in PlayerFiles : Load(data)
    \/ LaunchEditor
    \/ Play
    \/ Pause
    \/ Toggle
    \/ \E i \in 1..Len(loops) : LoopTest(i)
    \/ \E i \in 1..Len(loops) : LoopRead(i)
    \/ \E i \in 1..Len(loops) : LoopCheck(i)
    \/ \E i \in 1..Len(loops) : LoopDeliver(i)
    \/ \E i \in 1..Len(loops) : LoopExit(i)

SpecPlayer == InitEdits /\ [][NextPlayer]_vars

\* ---------------------------------------------------------- vocabulary
RECURSIVE TotalLength(_)
TotalLength(ranges) ==
    IF ranges = <<>> THEN 0
    ELSE (ranges[1][2] - ranges[1][1]) + TotalLength(Tail(ranges))

\* a gapless, non-overlapping covering of [0, total], the last end within tol
Covering(segs, total, tol) ==
    /\ segs # <<>>
    /\ segs[1].start = 0
    /\ \A i \in 2..Len(segs) : segs[i].start = segs[i - 1].end
    /\ segs[Len(segs)].end - total <= tol
    /\ total - segs[Len(segs)].end <= tol

Built == pc \in {"built", "resolved"}
Resolved == pc = "resolved"

TypeOK == pc \in {"input", "built", "raised", "resolved", "called"}

\* the input build_timeline is specified for: one or more units, each with
\* 0 <= start < end <= duration
AcceptedInput ==
    /\ text_segments # <<>>
    /\ \A w \in Range(text_segments) :
           0 <= w.start /\ w.start < w.end /\ w.end <= video_duration

\* a resolved edit of a timeline that covers [0, duration] exactly
EditCase == Resolved /\ Covering(segments, video_duration, 0) /\ buffer >= 100

\* the intervals, taken in start order, follow each other from 0 to total
Chain(ivs, total) ==
    LET c == SortByFirst(ivs)
    IN  /\ c # <<>>
        /\ c[1][1] = 0
        /\ \A i \in 2..Len(c) : c[i][1] = c[i - 1][2]
        /\ c[Len(c)][2] = total

\* sorted, pairwise non-overlapping, every range at least 1 ms long
KeepOrdered(k) ==
    \A i \in 1..Len(k) :
        /\ k[i][1] < k[i][2]
        /\ k[i][2] - k[i][1] >= 100
        /\ i < Len(k) => k[i][2] <= k[i + 1][1]

\* C1: for every accepted input the timeline build_timeline returns is a
\* gapless, non-overlapping covering of [0, duration]: it starts at 0, every
\* segment starts where the previous one ends, and it ends at the duration
\* within 1 ms.
C1_Coverage ==
    (Built /\ AcceptedInput) => Covering(segments, video_duration, 100)

\* C2: for a covering timeline, the keep-ranges and the merged
\* delete-intervals partition [0, duration]: they are disjoint and leave no
\* instant of [0, duration] out.
C2_ComplementLaw ==
    EditCase =>
        Chain(keep \o merged_deleted(segments, deleted, buffer), video_duration)

\* C3 as stated: every list get_keep_ranges returns, for any duration >= 0,
\* is sorted, non-overlapping, and each range has start < end and is at
\* least 1 ms long.
C3_KeepOrderedAnyDuration == Resolved => KeepOrdered(keep)

\* C3 amended: the same, for every duration of at least 1 ms.
C3_KeepOrdered == (Resolved /\ video_duration >= 100) => KeepOrdered(keep)

C3_Witness ==
    /\ Resolved
    /\ video_duration >= 100
    /\ deleted # {}
    /\ Len(keep) >= 2

\* C4: for a covering timeline, time_saved equals the duration minus the
\* total length of the keep-ranges.
C4_TimeSavedMatches ==
    EditCase =>
        time_saved(segments, deleted, buffer) = video_duration - TotalLength(keep)

\* the units in start order, and the gaps of at most 10 ms between them
SortedWords == SortByStart(text_segments)

MicroGapAfter(words, i) ==
    /\ i < Len(words)
    /\ words[i + 1].start - words[i].end > 0
    /\ words[i + 1].start - words[i].end <= WORD_GAP_COLLAPSE_S

ExpectedUnit(words, i) ==
    IF MicroGapAfter(words, i)
    THEN TextSegment(words[i].text, words[i].start, words[i + 1].start)
    ELSE words[i]

\* C5: when two consecutive units of an accepted input are separated by a
\* gap of at most 10 ms, build_timeline returns a timeline in which no Silence is emitted between them, the earlier unit appears with its end
\* moved to the later unit's start, and no other unit's bounds change.
C5_MicroGapAbsorbed ==
    LET words == SortedWords
    IN  (pc \in {"built", "raised", "resolved"}
           /\ AcceptedInput
           /\ \E i \in 1..Len(words) : MicroGapAfter(words, i))
        => /\ pc # "raised"
           /\ \A i \in 1..Len(words) :
                  /\ ExpectedUnit(words, i) \in Range(segments)
                  /\ MicroGapAfter(words, i) =>
                        ~ \E g \in Range(segments) :
                              /\ isSilence(g)
                              /\ g.start >= words[i].end
                              /\ g.end <= words[i + 1].start
           /\ \A seg \in Range(segments) :
                  isTextSegment(seg) =>
                      \E i \in 1..Len(words) : seg = ExpectedUnit(words, i)

\* C6: monotonic shrink: for a covering timeline, adding any index to the
\* deletion set never increases the total kept duration.
C6_MonotonicShrink ==
    EditCase =>
        \A i \in Indices(segments) :
            TotalLength(get_keep_ranges(segments, deleted \cup {i}, buffer,
                                        video_duration))
                <= TotalLength(keep)

C6_Witness ==
    /\ EditCase
    /\ deleted # {}
    /\ \E i \in Indices(segments) \ deleted :
           TotalLength(get_keep_ranges(segments, deleted \cup {i}, buffer,
                                       video_duration))
               < TotalLength(keep)

\* the overlap of a detected silence with an emitted gap
Overlap(d, g) == Min(d.end, g.end) - Max(d.start, g.start)

\* C7: every Silence emitted for a gap (leading, between units, trailing) is
\* marked detected exactly when some input detected silence overlaps it by
\* at least 1 ms, whatever the order and mutual overlap of the detected
\* silences.
C7_DetectedIffOverlap ==
    (Built /\ text_segments # <<>>) =>
        \A g \in Range(segments) :
            isSilence(g) =>
                (g.is_detected <=>
                    \E d \in Range(detected_silences) : Overlap(d, g) >= 100)

C7_Witness ==
    /\ Built
    /\ text_segments # <<>>
    /\ Len(detected_silences) = 2
    /\ detected_silences[1].start > detected_silences[2].start
    /\ Overlap(detected_silences[1], detected_silences[2]) > 0
    /\ \E g \in Range(segments) : isSilence(g) /\ g.is_detected
    /\ \E g \in Range(segments) : isSilence(g) /\ ~ g.is_detected

\* segments i and i + 1 (1-based) are a Silence and a TextSegment, in either
\* order, and both are deleted
AdjacentDeletedPair(i) ==
    /\ i \in 1..(Len(segments) - 1)
    /\ {i - 1, i} \subseteq deleted
    /\ segments[i].kind # segments[i + 1].kind

\* the part of the Silence of such a pair that the buffer protects, next to
\* the boundary it shares with the TextSegment
BufferEdge(i) ==
    IF isSilence(segments[i])
    THEN <<Round4(segments[i].end - buffer), segments[i + 1].start>>
    ELSE <<segments[i].end, Round4(segments[i + 1].start + buffer)>>

SilenceOf(i) == IF isSilence(segments[i]) THEN segments[i] ELSE segments[i + 1]

\* C8 as stated: an adjacent Silence and TextSegment that are both deleted
\* are merged into one delete-interval, no keep-range lies between the two,
\* for every buffer >= 1 ms.
C8_AdjacentMerged ==
    EditCase =>
        \A i \in 1..Len(segments) :
            AdjacentDeletedPair(i) =>
                ~ \E k \in Range(keep) :
                      k[1] >= segments[i].start /\ k[2] <= segments[i + 1].end

\* C8 amended: when the deleted Silence of such a pair has a deletable range
\* and the buffer exceeds 1 ms, the two contributions are not merged: the
\* Silence's buffer edge at the shared boundary is a keep-range between them.
C8_BufferEdgeKept ==
    (EditCase /\ buffer > 100) =>
        \A i \in 1..Len(segments) :
            (AdjacentDeletedPair(i)
               /\ deletable_range(SilenceOf(i), buffer) # None)
            => BufferEdge(i) \in Range(keep)

C8_Witness ==
    /\ EditCase
    /\ buffer > 100
    /\ \E i \in 1..Len(segments) :
           /\ AdjacentDeletedPair(i)
           /\ deletable_range(SilenceOf(i), buffer) # None
           /\ BufferEdge(i) \in Range(keep)

\* a Silence too short to survive the buffer on both sides
TooShort(seg, buf) == isSilence(seg) /\ duration(seg) < 2 * buf + 100

\* C9: deleting a Silence shorter than 2 * buffer + 1 ms is a no-op: the
\* keep-ranges with and without its index in the deletion set are equal,
\* for every buffer the session holds.
C9_ShortSilenceNoOp ==
    Resolved =>
        \A i \in Indices(segments) :
            TooShort(segments[i + 1], buffer) =>
                get_keep_ranges(segments, deleted \cup {i}, buffer, video_duration)
                  = get_keep_ranges(segments, deleted \ {i}, buffer, video_duration)

C9_Witness ==
    /\ Resolved
    /\ Cardinality(deleted) >= 2
    /\ \E i \in deleted :
           /\ TooShort(segments[i + 1], buffer)
           /\ duration(segments[i + 1]) > 0
           /\ keep = get_keep_ranges(segments, deleted \ {i}, buffer,
                                      video_duration)
           /\ Len(keep) >= 2

\* the condition under which deletable_range returns a range
HasRange(seg, buf) == seg.end - buf > seg.start + buf + 100

\* C10 as stated: deletable_range returns (start + buffer, end - buffer)
\* exactly when end - buffer > start + buffer + 1 ms and None otherwise, in
\* particular None when end - start < 2 * buffer + 1 ms, and a returned
\* range lies strictly inside [start, end] for every buffer > 0.
C10_AsStated ==
    pc = "called" =>
        LET seg == segments[1]
        IN  /\ HasRange(seg, buffer) =>
                  keep = <<<<seg.start + buffer, seg.end - buffer>>>>
            /\ ~ HasRange(seg, buffer) => keep = <<>>
            /\ duration(seg) < 2 * buffer + 100 => keep = <<>>
            /\ (keep # <<>> /\ buffer > 0) =>
                  (seg.start < keep[1][1] /\ keep[1][2] < seg.end)

\* C10 amended: the returned range is (start + buffer, end - buffer) rounded
\* to 4 decimals, and it lies strictly inside [start, end] for every buffer
\* of at least 0.0001 s.
C10_DeletableRange ==
    pc = "called" =>
        LET seg == segments[1]
        IN  /\ HasRange(seg, buffer) =>
                  keep = <<<<Round4(seg.start + buffer), Round4(seg.end - buffer)>>>>
            /\ ~ HasRange(seg, buffer) => keep = <<>>
            /\ duration(seg) < 2 * buffer + 100 => keep = <<>>
            /\ (keep # <<>> /\ buffer >= Quantum) =>
                  (seg.start < keep[1][1] /\ keep[1][2] < seg.end)

C10_Witness ==
    /\ pc = "called"
    /\ keep # <<>>
    /\ buffer >= Quantum
    /\ keep[1][1] # segments[1].start + buffer
    /\ keep[1][2] # segments[1].end - buffer

\* --------------------------------------------------------------------- C11
\* C11: with an empty deletion set get_keep_ranges returns exactly the one
\* range (0, duration), the duration as passed, for every timeline, buffer
\* and duration.
C11_EmptyDeletionIdentity ==
    (Resolved /\ deleted = {}) => keep = << <<0, video_duration>> >>

\* nothing deleted on a timeline with a silence, the duration off the
\* 0.1 ms grid
C11_Witness ==
    /\ Resolved /\ deleted = {}
    /\ \E i \in Indices(segments) : isSilence(segments[i + 1])
    /\ video_duration = 300044
    /\ keep = << <<0, 300044>> >>

\* --------------------------------------------------------------------- C12
\* C12: for a timeline built from units with start < end (their times need
\* not lie within the duration) of a clip of positive duration, and a valid
\* deletion set, every keep-range (s, e) satisfies 0 <= s < e <= duration.
C12_DurationClamped ==
    (/\ Resolved
     /\ video_duration > 0
     /\ \A w \in Range(text_segments) : w.start < w.end)
    => \A k \in Range(keep) : 0 <= k[1] /\ k[1] < k[2] /\ k[2] <= video_duration

\* --------------------------------------------------------------------- C16
\* C16: build_timeline rejects with an error every input that contains a
\* unit with start >= end; it returns no timeline for it.
Malformed(words) == \E w \in Range(words) : w.start >= w.end

C16_MalformedRejected ==
    (pc # "input" /\ Malformed(text_segments)) => pc = "raised"

\* --------------------------------------------------------------------- C17
\* C17: a call of get_keep_ranges with a negative buffer is rejected with an
\* error; no keep-ranges computed from a negative buffer are returned (the
\* buffer enters the computation when a silence is deleted).
C17_NegativeBufferRejected ==
    (/\ pc \in {"resolved", "index_error"}
     /\ buffer < 0
     /\ \E i \in deleted \cap Indices(segments) : isSilence(segments[i + 1]))
    => pc # "resolved"

\* --------------------------------------------------------------------- C18
\* C18: a call of get_keep_ranges whose deletion set contains an index >= the
\* number of segments fails as a whole with an error: no list, not a partial
\* one either, is returned.
OutOfRange(segs, D) == \E idx \in D : idx >= Len(segs)

C18_IndexOutOfRangeFails ==
    (pc \in {"resolved", "index_error"} /\ OutOfRange(segments, deleted))
    => (pc = "index_error" /\ keep = <<>>)

\* a failed call whose deletion set also names a silence and a word of the
\* timeline, which a partial result would have removed
C18_Witness ==
    /\ pc = "index_error"
    /\ OutOfRange(segments, deleted)
    /\ \E i \in deleted \cap Indices(segments) : isSilence(segments[i + 1])
    /\ buffer = 5000
    /\ keep = <<>>

\* --------------------------------------------------------------------- C19
\* C19: Project.load returns no project for a session file whose
\* deleted-index list contains an index >= the number of its segments.
C19_LoadRejectsStaleIndex ==
    pc = "loaded" => ~ OutOfRange(segments, Range(project_deleted))

\* --------------------------------------------------------------------- C20
\* C20: in every state of a session the buffer its settings hold is at least
\* 1 ms: after the command line pipeline, after Project.load, and after every
\* change of the buffer field of the editor.
C20_BufferFloor == buffer >= BUFFER_FLOOR

\* the buffer field holds a negative value, typed in, and the change has
\* been applied; and the session came from a file with a negative buffer
C20_Witness ==
    /\ pc = "editing"
    /\ spin_value = 0 - 5000
    /\ ~ timer
    /\ spin_entry = Text(0 - 5000)
    /\ buffer = BUFFER_FLOOR

\* --------------------------------------------------------------------- C13
\* C13: a re-analysis never moves a deletion to another segment: when the
\* rebuilt timeline is installed, every deleted index that stays below the new
\* segment count denotes a segment of the same kind, start and end as before.
SameUnit(a, b) == a.kind = b.kind /\ a.start = b.start /\ a.end = b.end

C14_EditNotLost ==
    (pc = "editing" /\ ~ InFlight)
    => /\ deleted = Range(project_deleted)
       /\ (issued \cap Indices(segments)) \subseteq deleted

\* --------------------------------------------------------------------- C15
\* C15: when a re-analysis was started while an earlier one was running, then
\* once all of them have finished the project's timeline is the one the
\* latest-started re-analysis computed, whatever order they finished in.
AllFinished == \A i \in 1..Len(workers) : workers[i].pc = "done"

C15_LatestReanalysisWins ==
    (/\ Len(workers) >= 2
     /\ AllFinished
     /\ workers[Len(workers)].overlapped)
    => segments = workers[Len(workers)].new_segs

\* --------------------------------------------------------------------- C21
\* every Silence of a timeline spans its whole gap: from 0 or the end of the
\* unit before it to the start of the unit after it or the duration, each
\* rounded to 4 decimals as every emitted time is
FullGaps(segs, total) ==
    \A i \in 1..Len(segs) :
        isSilence(segs[i]) =>
            /\ i > 1 => isTextSegment(segs[i - 1])
            /\ i < Len(segs) => isTextSegment(segs[i + 1])
            /\ segs[i].start = IF i = 1 THEN 0 ELSE Round4(segs[i - 1].end)
            /\ segs[i].end = IF i = Len(segs) THEN Round4(total)
                              ELSE Round4(segs[i + 1].start)

\* C21: build_timeline never applies the buffer: every Silence it emits
\* spans the full gap, and whatever buffer the settings hold later, the
\* timeline is the one build_timeline returns under those settings, so a
\* change of the buffer needs no rebuild.
C21_BufferNotApplied ==
    Built =>
        /\ FullGaps(segments, video_duration)
        /\ segments = build_timeline(text_segments, detected_silences,
                                     video_duration).segments

\* a timeline with a leading, an inner and a trailing silence, resolved
\* under a buffer other than the one it was built under
C21_Witness ==
    /\ Resolved
    /\ buffer # SilenceSettings(DEFAULT_BUFFER)
    /\ Len(segments) = 5
    /\ \A i \in {1, 3, 5} : isSilence(segments[i]) /\ duration(segments[i]) > 2 * buffer
    /\ video_duration = 300044

\* --------------------------------------------------------------------- C22
\* the segments, the deleted-index list and the buffer of the open project
SessionRecord(segs, deleted_list, buf) ==
    [segments |-> segs, deleted |-> deleted_list, buffer |-> buf]

\* C22: saving and loading is a round trip: Project.load of the file
\* Project.save wrote yields the same ordered segment list (kind, text, start,
\* end and is_detected of every segment), the same deleted-index list and the
\* same buffer; and the project loaded from it, saved again, writes the same
\* file.
C22_SaveLoadRoundTrip ==
    /\ pc = "saved" =>
           LET project == load(disk)
           IN  SessionRecord(project.segments, project.deleted, project.buffer)
                 = SessionRecord(segments, project_deleted, buffer)
    /\ (pc = "loaded" /\ disk # NoFile) =>
           to_dict(segments, project_deleted, buffer, video_duration) = disk

\* a project with a deletion and a 1 ms buffer, loaded back from the file it
\* was saved to
C22_Witness ==
    /\ pc = "loaded"
    /\ disk # NoFile
    /\ project_deleted # <<>>
    /\ buffer = BUFFER_FLOOR
    /\ \E i \in Indices(segments) : isSilence(segments[i + 1])

\* --------------------------------------------------------------------- C23
\* C23: given an empty list of speech units build_timeline returns, without
\* error, exactly one segment: a Silence from 0 to the duration (rounded to 4
\* decimals as every emitted time is) that is not marked detected, whatever
\* detected silences are supplied, even one that covers the whole clip.
C23_EmptyInputFallback ==
    (pc # "input" /\ text_segments = <<>>) =>
        /\ pc # "raised"
        /\ segments = <<Silence(0, Round4(video_duration), FALSE)>>

\* no speech unit, and a detected silence over the whole 3 s clip
C23_Witness ==
    /\ Built
    /\ text_segments = <<>>
    /\ Silence(0, 300000, TRUE) \in Range(detected_silences)
    /\ video_duration = 300000
    /\ Len(segments) = 1 /\ ~ segments[1].is_detected

WellFormed(words) ==
    words # <<>> /\ \A w \in Range(words) : 0 <= w.start /\ w.start < w.end

C27_TotalOnWellFormed ==
    (pc # "input" /\ WellFormed(text_segments)) => pc = "built"

\* --------------------------------------------------------------------- C26
\* C26: the keep-ranges used for playback are always fresh: once an editor
\* operation that changes the segments, the deletion set or the buffer has
\* completed (for a buffer change: once the change has been applied), the
\* list the attached player holds equals get_keep_ranges of the editor's
\* current segments, deletion set, buffer and duration.
C26_KeepRangesFresh ==
    (pc = "editing" /\ ~ timer) =>
        keep = get_keep_ranges(segments, deleted, buffer, video_duration)

\* --------------------------------------------------------------------- C28
\* the indices held anywhere in the editor: the deletion set, project.deleted
\* and the snapshots on the undo and redo stacks
HeldIndices ==
    deleted \cup Range(project_deleted)
            \cup UNION Range(undo_stack) \cup UNION Range(redo_stack)

\* C28: starting from a project built by build_timeline, after any sequence
\* of editor operations every index in the editor's deletion set, in
\* project.deleted and in every snapshot on the undo and redo stacks is a
\* valid index of the current timeline, so time_saved and get_keep_ranges do
\* not fail on it.
C28_IndicesStayValid ==
    pc = "editing" =>
        /\ HeldIndices \subseteq Indices(segments)
        /\ ~ time_saved_raises(segments, project_deleted)
        /\ get_keep_ranges_call(segments, deleted, buffer, video_duration).ok

\* deletions held in the set and on both stacks after a re-analysis
C28_Witness ==
    /\ pc = "editing"
    /\ workers # <<>> /\ AllFinished
    /\ deleted # {}
    /\ undo_stack # <<>> /\ undo_stack[1] # {}

\* --------------------------------------------------------------------- C29
\* C29: undo and redo are exact inverses: undo restores the deletion set to
\* exactly what it was before the last edit and redo re-applies exactly that
\* edit, and undo or redo on an empty stack changes nothing.
C29_UndoRedoInverse ==
    [][/\ (last_op'.phase = "undone" /\ last_op.phase # "undone")
            => deleted' = last_op.before
       /\ (last_op'.phase = "redone" /\ last_op.phase = "undone")
            => deleted' = last_op.after]_vars

\* --------------------------------------------------------------------- C25
\* the keep-ranges of the project as it was at the last set_project call
project_keep_ranges ==
    get_keep_ranges(segments, Range(project_deleted), buffer, video_duration)

within(t, ranges) ==
    \E i \in 1..Len(ranges) : ranges[i][1] <= t /\ t <= ranges[i][2]

\* C25: while the play loop runs with a project attached, no frame goes to
\* the frame callback whose time lies outside every keep-range that
\* get_keep_ranges gives for the project of the last set_project call; when
\* every segment is deleted nothing is delivered.
C25_NoDeletedFrameDelivered ==
    \A i \in 1..Len(loops) :
        loops[i].pc = "deliver" => within(loops[i].t, project_keep_ranges)

\* --------------------------------------------------------------------- C30
\* the threads inside the body of the play loop
in_loop_body == {i \in 1..Len(loops) : loops[i].pc \in {"read", "check", "deliver"}}

\* C30: after any sequence of play(), pause() and toggle() calls there are
\* never two threads executing _play_loop at the same time.
C30_OnePlayLoop == Cardinality(in_loop_body) <= 1

====
